---- MODULE Spec2Model ----
(***************************************************************************)
(* Model of the token dispersal engine of bot.js: endpoint validation,     *)
(* the BatchNonceManager, the balance check, and the batch loop of main    *)
(* with its per-transaction retry.                                         *)
(***************************************************************************)
EXTENDS Integers, Sequences, FiniteSets, TLC

\* ---------------------------------------------------------------- bounds
NumRpc == 2          \* endpoints declared in chain.rpc
MaxRecipients == 6   \* longest address list
MaxBaseNonce == 1    \* largest on-chain transaction count at start
MaxBalance == 10     \* largest balance a read returns
MaxAmount == 4       \* largest amount the user enters
MaxRejects == 3      \* sendTransaction rejections the network produces in a session
MaxCount == 2        \* largest count of a concurrent getNextBatchNonces call
MaxCustomGasRecipients == 2  \* longest address list explored with custom gas settings
MaxLiveRecipients == 2  \* longest address list of the liveness specification
MaxTicks == 2        \* interval ticks of the polling variant
MaxPollBalance == 5  \* largest balance of the polling account
MaxExtraGas == 0     \* largest excess of a custom gas limit over the default
MaxGasFee == 1       \* largest custom fee per gas, in gwei

\* ------------------------------------------------------ program constants
BATCH_SIZE == 5
RETRY_ATTEMPTS == 3

\* null / undefined of a numeric variable
Null == -1

\* tokenContract.target, an address that is no recipient
TokenTarget == 0

\* main's provider before buildFallbackProvider has returned
NoProvider == [providers |-> <<>>, network |-> [name |-> "none", chainId |-> "none"]]

VARIABLES
  pc,            \* position of main
  exitCode,      \* process exit status, Null while running
  error,         \* cause of the fatal abort, "none" if none
  transferType,  \* "native" or "erc20"
  addresses,     \* the recipient list
  rpcIdx,        \* 1-based index of the next url of chain.rpc to validate
  providers,     \* buildFallbackProvider's providers array (urls that validated)
  events,        \* spinner.succeed / spinner.fail lines of the validation loop
  provider,      \* main's provider: NoProvider, or the fallback provider returned
  balance,       \* the balance read before the check, Null outside it
  balanceReads,  \* number of balance reads made
  parsedAmount,  \* per-recipient amount, Null until entered
  fundsOk,       \* whether amount * recipients <= balance held when the check ran
  mgr,           \* the BatchNonceManager: currentNonce, nextAvailable
  chainCount,    \* the account's transaction count on chain at session start
  chainReads,    \* number of wallet.getNonce calls made
  batchIndex,    \* loop variable of the batch loop
  batchNonces,   \* result of the last getNextBatchNonces call of main
  transactions,  \* the intents of the batch in flight
  tasks,         \* one retry task per intent of the batch in flight
  intents,       \* every intent built so far, in build order
  outcomes,      \* every result consumed by the results loop, in order
  successCount,  \* main's successCount
  sends,         \* number of wallet.sendTransaction calls made
  rejects,       \* number of rejected sendTransaction calls
  accepted,      \* nonces of the submissions the network has accepted
  calls,         \* concurrent callers of getNextBatchNonces (SpecConc only)
  summary,       \* totalSent and successRate of the final report, Null until printed
  endpointFacts, \* what each endpoint answered during validation: its own chain id
                 \* and whether getBlockNumber succeeded; forgotten after validation
  gasParams,     \* main's gasParams, NoGas until the gas prompts are answered
  poll           \* the polling variant: chain balance, runs of checkBalanceAndSend,
                 \* transactions sent (SpecPoll only)

vars == <<pc, exitCode, error, transferType, addresses, rpcIdx, providers, events,
          provider, balance, balanceReads, parsedAmount, fundsOk, mgr, chainCount,
          chainReads, batchIndex, batchNonces, transactions, tasks, intents,
          outcomes, successCount, sends, rejects, accepted, calls, summary, endpointFacts, gasParams, poll>>

mainVars == <<pc, exitCode, error, transferType, addresses, rpcIdx, providers, events,
              provider, balance, balanceReads, parsedAmount, fundsOk, chainCount,
              batchIndex, batchNonces, transactions, tasks, intents,
              outcomes, successCount, sends, rejects, accepted, summary, endpointFacts,
              gasParams, poll>>

sessionVars == <<pc, exitCode, error, transferType, addresses, rpcIdx, providers, events,
                 provider, balance, balanceReads, parsedAmount, fundsOk, mgr, chainCount,
                 chainReads, batchIndex, batchNonces, transactions, tasks, intents,
                 outcomes, successCount, sends, rejects, accepted, summary, endpointFacts,
                 gasParams>>

\* ------------------------------------------------------------- helpers
Range(s) == {s[i] : i \in 1..Len(s)}

Min(a, b) == IF a < b THEN a ELSE b

\* JavaScript's !v for a value that is null or a number
Falsy(v) == v = Null \/ v = 0

\* new BatchNonceManager(wallet, batchSize)
NewManager == [currentNonce |-> Null, nextAvailable |-> 0]

\* Array.from({length: count}, (_, i) => this.nextAvailable + i)
NonceArray(m, count) == [i \in 1..count |-> m.nextAvailable + (i - 1)]

\* this.nextAvailable += count
Advance(m, count) == [m EXCEPT !.nextAvailable = @ + count]

\* this.currentNonce = await this.wallet.getNonce(); this.nextAvailable = this.currentNonce
Initialized(m, r) == [m EXCEPT !.currentNonce = r, !.nextAvailable = r]

\* values wallet.getNonce() can return: the count at session start plus however
\* many of the accepted transactions, in nonce order, have been mined since
ChainReadValues ==
  {r \in chainCount..(chainCount + Len(intents)) :
      \A k \in chainCount..(r - 1) : k \in accepted}

\* ------------------------------------------------- endpoint validation
\* createValidProvider(url, chain): getNetwork is overridden with the static
\* network before it is compared with the static network, so only the
\* getBlockNumber query decides. reported is the chain id the endpoint itself
\* reports, up is whether getBlockNumber succeeds.
ExpectedChainId == "expected"

ChainIds == {"expected", "other"}

\* getNetwork left as the provider's own, which asks the endpoint
endpointGetNetwork(reported) == reported

\* provider.getNetwork = async () => staticNetwork
overriddenGetNetwork(reported) == ExpectedChainId

createValidProvider(reported, up) ==
  IF overriddenGetNetwork(reported) # ExpectedChainId THEN FALSE ELSE up

\* the message createValidProvider throws, "none" when it returns the provider
ValidationError(reported, up) ==
  IF overriddenGetNetwork(reported) # ExpectedChainId THEN "ChainIdMismatch"
  ELSE IF ~up THEN "getBlockNumber"
  ELSE "none"

\* the length check left out
NoWorkingEndpointsUnchecked(ps) == FALSE

\* providers.length === 0
NoWorkingEndpoints(ps) == Len(ps) = 0

\* enforcedNetwork: name and chainId of the chain descriptor
enforcedNetwork == [name |-> "chain.name", chainId |-> ExpectedChainId]

\* a fallback provider that takes its identity from the first endpoint it aggregates
FallbackProviderUnpinned(ps, reported) ==
  [providers |-> ps, network |-> [name |-> "chain.name", chainId |-> reported[ps[1]]]]

\* new ethers.FallbackProvider(providers, 1) with getNetwork / detectNetwork
\* replaced by functions returning the enforced network; reported holds the
\* chain ids the endpoints themselves report, which the override never reads
FallbackProvider(ps, reported) == [providers |-> ps, network |-> enforcedNetwork]

\* providers.unshift in place of push
PushProviderFront(ps, url) == <<url>> \o ps

\* providers.push(provider)
PushProvider(ps, url) == Append(ps, url)

Fatal(cause) ==
  /\ pc' = "failed"
  /\ error' = cause
  /\ exitCode' = 1

\* One iteration of the for loop of buildFallbackProvider; after the last url
\* the function runs on to its length check and returns or throws.
ValidateEndpoint ==
  /\ pc = "validate"
  /\ rpcIdx <= NumRpc
  /\ \E up \in BOOLEAN, reported \in ChainIds :
       LET valid == createValidProvider(reported, up)
           ps == IF valid THEN PushProvider(providers, rpcIdx) ELSE providers
           facts == Append(endpointFacts, [reported |-> reported, up |-> up])
       IN /\ providers' = ps
          /\ events' = Append(events, [url |-> rpcIdx, valid |-> valid,
                                       error |-> ValidationError(reported, up)])
          /\ endpointFacts' = facts
          /\ rpcIdx' = rpcIdx + 1
          /\ IF rpcIdx < NumRpc
               THEN UNCHANGED <<pc, error, exitCode, provider>>
               ELSE IF NoWorkingEndpoints(ps)
                 THEN Fatal("NoWorkingRpc") /\ UNCHANGED provider
                 ELSE /\ provider' = FallbackProvider(ps, [k \in 1..Len(facts) |-> facts[k].reported])
                      /\ pc' = "wallet"
                      /\ UNCHANGED <<error, exitCode>>
  /\ UNCHANGED <<transferType, addresses, balance, balanceReads, parsedAmount, fundsOk,
                 mgr, chainCount, chainReads, batchIndex, batchNonces, transactions,
                 tasks, intents, outcomes, successCount, sends, rejects, accepted, calls,
                 summary, gasParams, poll>>

\* The private key prompt is answered and new ethers.Wallet(privateKey, provider)
\* runs; a key the prompt's format check let through can still be rejected.
CreateWallet ==
  /\ pc = "wallet"
  /\ \E validKey \in BOOLEAN :
       IF validKey
         THEN /\ pc' = IF transferType = "erc20" THEN "tokenDetails" ELSE "balance"
              /\ UNCHANGED <<error, exitCode>>
         ELSE Fatal("PrivateKey")
  /\ UNCHANGED <<transferType, addresses, rpcIdx, providers, events, provider, balance,
                 balanceReads, parsedAmount, fundsOk, mgr, chainCount, chainReads,
                 batchIndex, batchNonces, transactions, tasks, intents, outcomes,
                 successCount, sends, rejects, accepted, calls, summary, endpointFacts,
                 gasParams, poll>>

\* ------------------------------------------------------- balance check
\* Promise.all([tokenContract.symbol(), tokenContract.decimals()])
FetchTokenDetails ==
  /\ pc = "tokenDetails"
  /\ \E ok \in BOOLEAN :
       IF ok THEN pc' = "balance" /\ UNCHANGED <<error, exitCode>>
             ELSE Fatal("TokenDetails")
  /\ endpointFacts' = <<>>
  /\ UNCHANGED <<transferType, addresses, rpcIdx, providers, events, provider, balance,
                 balanceReads, parsedAmount, fundsOk, mgr, chainCount, chainReads,
                 batchIndex, batchNonces, transactions, tasks, intents, outcomes,
                 successCount, sends, rejects, accepted, calls, summary, gasParams, poll>>

\* tokenContract.balanceOf(wallet.address) / provider.getBalance(wallet.address)
ReadBalance ==
  /\ pc = "balance"
  /\ balanceReads' = balanceReads + 1
  /\ \/ \E b \in 0..MaxBalance :
          /\ balance' = b
          /\ pc' = "amount"
          /\ UNCHANGED <<error, exitCode>>
     \/ Fatal("BalanceRead") /\ UNCHANGED balance
  /\ endpointFacts' = <<>>
  /\ UNCHANGED <<transferType, addresses, rpcIdx, providers, events, provider,
                 parsedAmount, fundsOk, mgr, chainCount, chainReads, batchIndex,
                 batchNonces, transactions, tasks, intents, outcomes, successCount,
                 sends, rejects, accepted, calls, summary, gasParams, poll>>

\* the comparison taken as >=
InsufficientOrEqual(amount, n, bal) == amount * n >= bal

\* the comparison left out
InsufficientUnchecked(amount, n, bal) == FALSE

\* parsedAmount * BigInt(addresses.length) > balance
Insufficient(amount, n, bal) == amount * n > bal

\* The amount prompt (validate: v > 0), the parse and the comparison.
EnterAmount ==
  /\ pc = "amount"
  /\ \E a \in 1..MaxAmount :
       /\ parsedAmount' = a
       /\ fundsOk' = (a * Len(addresses) <= balance)
       /\ IF Insufficient(a, Len(addresses), balance)
            THEN Fatal("InsufficientBalance")
            ELSE /\ pc' = "gas"
                 /\ UNCHANGED <<error, exitCode>>
  /\ UNCHANGED <<transferType, addresses, rpcIdx, providers, events, provider, balance,
                 balanceReads, mgr, chainCount, chainReads, batchIndex, batchNonces,
                 transactions, tasks, intents, outcomes, successCount, sends, rejects,
                 accepted, calls, summary, endpointFacts, gasParams, poll>>

\* defaultGasLimit of a native transfer and of an ERC20 transfer
NATIVE_GAS_LIMIT == 21000

ERC20_GAS_LIMIT == 60000

defaultGasLimit == IF transferType = "erc20" THEN ERC20_GAS_LIMIT ELSE NATIVE_GAS_LIMIT

\* gasParams before the gas prompts
NoGas == [gasLimit |-> Null, maxFeePerGas |-> Null, maxPriorityFeePerGas |-> Null]

\* gasParams = { gasLimit: defaultGasLimit }
DefaultGas == [gasLimit |-> defaultGasLimit, maxFeePerGas |-> Null,
               maxPriorityFeePerGas |-> Null]

\* the custom settings: fees > 0 in gwei, gas limit >= defaultGasLimit
CustomGas ==
  {[gasLimit |-> defaultGasLimit + extra, maxFeePerGas |-> fee, maxPriorityFeePerGas |-> fee]
     : extra \in 0..MaxExtraGas, fee \in 1..MaxGasFee}

\* answers to the "Use custom gas settings?" prompt that are explored
GasAnswers == IF Len(addresses) <= MaxCustomGasRecipients THEN BOOLEAN ELSE {FALSE}

\* The gas prompts; main then constructs the BatchNonceManager and calls
\* initialize(). The balance of the check is out of scope from here on.
ConfirmGas ==
  /\ pc = "gas"
  /\ pc' = "init"
  /\ balance' = Null
  /\ mgr' = NewManager
  /\ \E useCustomGas \in GasAnswers :
       IF useCustomGas THEN gasParams' \in CustomGas ELSE gasParams' = DefaultGas
  /\ UNCHANGED <<exitCode, error, transferType, addresses, rpcIdx, providers, events,
                 provider, balanceReads, parsedAmount, fundsOk, chainCount, chainReads,
                 batchIndex, batchNonces, transactions, tasks, intents, outcomes,
                 successCount, sends, rejects, accepted, calls, summary, endpointFacts,
                 poll>>

\* ---------------------------------------------------------- batch loop
\* batchNonceManager.initialize(), awaited by main before the loop
Initialize ==
  /\ pc = "init"
  /\ \E r \in ChainReadValues : mgr' = Initialized(mgr, r)
  /\ chainReads' = chainReads + 1
  /\ pc' = "loop"
  /\ UNCHANGED <<exitCode, error, transferType, addresses, rpcIdx, providers, events,
                 provider, balance, balanceReads, parsedAmount, fundsOk, chainCount,
                 batchIndex, batchNonces, transactions, tasks, intents, outcomes,
                 successCount, sends, rejects, accepted, calls, summary, endpointFacts, gasParams, poll>>

\* the loop test leaving out a short last batch
LoopConditionFullBatches(i, n) == i + BATCH_SIZE <= n

\* batchIndex < addresses.length
LoopCondition(i, n) == i < n

\* a slice that takes the element at its end index too
SliceInclusiveEnd(list, from, to) == SubSeq(list, from + 1, Min(to + 1, Len(list)))

\* addresses.slice(batchIndex, batchIndex + BATCH_SIZE), batchIndex 0-based
Slice(list, from, to) == SubSeq(list, from + 1, Min(to, Len(list)))

Batch == Slice(addresses, batchIndex, batchIndex + BATCH_SIZE)

\* the total multiplied by every recipient instead of the successful ones
TotalSentAll(amount, count) == amount * Len(addresses)

\* totalSent = parsedAmount * BigInt(successCount)
TotalSent(amount, count) == amount * count

\* the value of 0 / 0 * 100
NaN == -2

\* ((successCount / addresses.length) * 100).toFixed(2), in hundredths of a
\* percent: the quotient rounded to two decimals, half up
SuccessRate(count, n) == IF n = 0 THEN NaN ELSE (20000 * count + n) \div (2 * n)

\* an exit status that reports failed recipients
NormalExitFailing(count, n) == IF count < n THEN 1 ELSE 0

\* main().then(() => process.exit(0))
NormalExit(count, n) == 0

\* The loop test; when it fails main prints the summary and resolves, and
\* main().then(() => process.exit(0)) ends the process.
LoopHead ==
  /\ pc = "loop"
  /\ IF LoopCondition(batchIndex, Len(addresses))
       THEN pc' = "alloc" /\ UNCHANGED <<exitCode, summary>>
       ELSE /\ pc' = "done"
            /\ summary' = [totalSent |-> TotalSent(parsedAmount, successCount),
                           successRate |-> SuccessRate(successCount, Len(addresses))]
            /\ exitCode' = NormalExit(successCount, Len(addresses))
  /\ UNCHANGED <<error, transferType, addresses, rpcIdx, providers, events, provider,
                 balance, balanceReads, parsedAmount, fundsOk, mgr, chainCount,
                 chainReads, batchIndex, batchNonces, transactions, tasks, intents,
                 outcomes, successCount, sends, rejects, accepted, calls, endpointFacts,
                 gasParams, poll>>

\* getNextBatchNonces(batch.length) up to its first await: with a truthy
\* currentNonce it returns the range, otherwise it awaits initialize().
GetNextBatchNonces ==
  /\ pc = "alloc"
  /\ IF Falsy(mgr.currentNonce)
       THEN /\ pc' = "reinit"
            /\ UNCHANGED <<mgr, batchNonces>>
       ELSE /\ batchNonces' = NonceArray(mgr, Len(Batch))
            /\ mgr' = Advance(mgr, Len(Batch))
            /\ pc' = "dispatch"
  /\ UNCHANGED <<exitCode, error, transferType, addresses, rpcIdx, providers, events,
                 provider, balance, balanceReads, parsedAmount, fundsOk, chainCount,
                 chainReads, batchIndex, transactions, tasks, intents, outcomes,
                 successCount, sends, rejects, accepted, calls, summary, endpointFacts, gasParams, poll>>

\* The initialize() awaited inside getNextBatchNonces resolves; the range is
\* computed from the cursor it has just set.
ReInitialize ==
  /\ pc = "reinit"
  /\ \E r \in ChainReadValues :
       LET m == Initialized(mgr, r)
       IN /\ batchNonces' = NonceArray(m, Len(Batch))
          /\ mgr' = Advance(m, Len(Batch))
  /\ chainReads' = chainReads + 1
  /\ pc' = "dispatch"
  /\ UNCHANGED <<exitCode, error, transferType, addresses, rpcIdx, providers, events,
                 provider, balance, balanceReads, parsedAmount, fundsOk, chainCount,
                 batchIndex, transactions, tasks, intents, outcomes,
                 successCount, sends, rejects, accepted, calls, summary, endpointFacts, gasParams, poll>>

\* The transaction object built for one recipient of the batch
BuildTransaction(address, nonce) ==
  IF transferType = "erc20"
    THEN [to |-> TokenTarget, data |-> <<address, parsedAmount>>, value |-> 0,
          nonce |-> nonce, gas |-> gasParams]
    ELSE [to |-> address, data |-> <<>>, value |-> parsedAmount, nonce |-> nonce,
          gas |-> gasParams]

\* A retry task that has just made its first wallet.sendTransaction call
FirstAttempt(tx) == [attempts |-> 1, st |-> "pending", hist |-> <<>>, sent |-> <<tx>>]

\* batch.map builds the intents; transactions.map starts one retry task per
\* intent, each running up to its first wallet.sendTransaction call.
Dispatch ==
  /\ pc = "dispatch"
  /\ LET txs == [i \in 1..Len(Batch) |-> BuildTransaction(Batch[i], batchNonces[i])]
     IN /\ transactions' = txs
        /\ intents' = intents \o txs
        /\ tasks' = [i \in 1..Len(Batch) |-> FirstAttempt(txs[i])]
        /\ sends' = sends + Len(Batch)
  /\ pc' = "await"
  /\ UNCHANGED <<exitCode, error, transferType, addresses, rpcIdx, providers, events,
                 provider, balance, balanceReads, parsedAmount, fundsOk, mgr, chainCount,
                 chainReads, batchIndex, batchNonces, outcomes, successCount, rejects,
                 accepted, calls, summary, endpointFacts, gasParams, poll>>

\* ------------------------------------------------------------ retry loop
\* while (attempts < RETRY_ATTEMPTS)
WhileCondition(attempts) == attempts < RETRY_ATTEMPTS

\* the exhaustion test one attempt early
RetryExhaustedEarly(attempts) == attempts = RETRY_ATTEMPTS - 1

\* if (attempts === RETRY_ATTEMPTS) in the catch block
RetryExhausted(attempts) == attempts = RETRY_ATTEMPTS

\* wallet.sendTransaction(tx) resolves: the task returns its success result.
Accept(i) ==
  /\ pc = "await"
  /\ i \in 1..Len(tasks)
  /\ tasks[i].st = "pending"
  /\ tasks' = [tasks EXCEPT ![i].st = "ok", ![i].hist = Append(@, TRUE)]
  /\ accepted' = accepted \cup {transactions[i].nonce}
  /\ UNCHANGED <<pc, exitCode, error, transferType, addresses, rpcIdx, providers, events,
                 provider, balance, balanceReads, parsedAmount, fundsOk, mgr, chainCount,
                 chainReads, batchIndex, batchNonces, transactions, intents, outcomes,
                 successCount, sends, rejects, calls, summary, endpointFacts, gasParams, poll>>

\* wallet.sendTransaction(tx) rejects: on the last attempt the task returns
\* its failure result, otherwise it sleeps 1000 * attempts ms.
Reject(i) ==
  /\ pc = "await"
  /\ i \in 1..Len(tasks)
  /\ tasks[i].st = "pending"
  /\ rejects < MaxRejects
  /\ rejects' = rejects + 1
  /\ tasks' = [tasks EXCEPT
                 ![i].st = IF RetryExhausted(tasks[i].attempts) THEN "fail" ELSE "backoff",
                 ![i].hist = Append(@, FALSE)]
  /\ UNCHANGED <<pc, exitCode, error, transferType, addresses, rpcIdx, providers, events,
                 provider, balance, balanceReads, parsedAmount, fundsOk, mgr, chainCount,
                 chainReads, batchIndex, batchNonces, transactions, intents, outcomes,
                 successCount, sends, accepted, calls, summary, endpointFacts, gasParams, poll>>

\* a retry that draws a fresh nonce from the manager's cursor
RetryTransactionFreshNonce(i) == [transactions[i] EXCEPT !.nonce = mgr.nextAvailable]

\* the tx a retry passes to wallet.sendTransaction: the object built for the intent
RetryTransaction(i) == transactions[i]

\* The backoff timer fires: the loop test, attempts++ and the next
\* wallet.sendTransaction call; a failed loop test ends the task with no result.
RetryTimer(i) ==
  /\ pc = "await"
  /\ i \in 1..Len(tasks)
  /\ tasks[i].st = "backoff"
  /\ IF WhileCondition(tasks[i].attempts)
       THEN /\ tasks' = [tasks EXCEPT ![i].attempts = @ + 1, ![i].st = "pending",
                                       ![i].sent = Append(@, RetryTransaction(i))]
            /\ sends' = sends + 1
       ELSE /\ tasks' = [tasks EXCEPT ![i].st = "undefined"]
            /\ UNCHANGED sends
  /\ UNCHANGED <<pc, exitCode, error, transferType, addresses, rpcIdx, providers, events,
                 provider, balance, balanceReads, parsedAmount, fundsOk, mgr, chainCount,
                 chainReads, batchIndex, batchNonces, transactions, intents, outcomes,
                 successCount, rejects, accepted, calls, summary, endpointFacts, gasParams, poll>>

\* the join resolving on the first task that returns
PromiseAnySettled(ts) == \E i \in 1..Len(ts) : ts[i].st \in {"ok", "fail", "undefined"}

\* Promise.all resolves once every task has returned
PromiseAllSettled(ts) == \A i \in 1..Len(ts) : ts[i].st \in {"ok", "fail", "undefined"}

\* the address taken from tx.to in every case
ResultAddressTo(tx, batchAddress) == tx.to

\* address: tx.to === tokenContract?.target ? batch[index] : tx.to
ResultAddress(tx, batchAddress) ==
  IF transferType = "erc20" /\ tx.to = TokenTarget THEN batchAddress ELSE tx.to

\* The result object a finished task returned
TaskResult(i) ==
  [success |-> tasks[i].st = "ok", address |-> ResultAddress(transactions[i], Batch[i])]

\* for (const result of results): one report per result, at position
\* batchIndex + results.indexOf(result) + 1
Reports(results) ==
  [i \in 1..Len(results) |->
     [position |-> batchIndex + (i - 1) + 1, address |-> results[i].address,
      success |-> results[i].success]]

CountSuccess(results) == Cardinality({i \in 1..Len(results) : results[i].success})

\* Promise.all resolves; the results loop runs and batchIndex += BATCH_SIZE.
\* A task that returned no result makes result.success throw into main's catch.
ReportResults ==
  /\ pc = "await"
  /\ PromiseAllSettled(tasks)
  /\ IF \E i \in 1..Len(tasks) : tasks[i].st = "undefined"
       THEN Fatal("TypeError") /\ UNCHANGED <<outcomes, successCount, batchIndex>>
       ELSE LET results == [i \in 1..Len(tasks) |-> TaskResult(i)]
            IN /\ outcomes' = outcomes \o Reports(results)
               /\ successCount' = successCount + CountSuccess(results)
               /\ batchIndex' = batchIndex + BATCH_SIZE
               /\ pc' = "loop"
               /\ UNCHANGED <<error, exitCode>>
  /\ UNCHANGED <<transferType, addresses, rpcIdx, providers, events, provider, balance,
                 balanceReads, parsedAmount, fundsOk, mgr, chainCount, chainReads,
                 batchNonces, transactions, tasks, intents, sends, rejects, accepted,
                 calls, summary, endpointFacts, gasParams, poll>>

\* ------------------------------------------------------- specification
\* before the summary is printed
NoSummary == [totalSent |-> Null, successRate |-> Null]

\* the polling variant not running
NoPoll == [chainBalance |-> Null, ticks |-> 0, runs |-> <<>>, sent |-> <<>>]

AddressLists == {[p \in 1..n |-> p] : n \in 0..MaxRecipients}

Init ==
  /\ pc = "validate"
  /\ exitCode = Null
  /\ error = "none"
  /\ transferType \in {"native", "erc20"}
  /\ addresses \in AddressLists
  /\ rpcIdx = 1
  /\ providers = <<>>
  /\ events = <<>>
  /\ provider = NoProvider
  /\ balance = Null
  /\ balanceReads = 0
  /\ parsedAmount = Null
  /\ fundsOk = FALSE
  /\ mgr = NewManager
  /\ chainCount \in 0..MaxBaseNonce
  /\ chainReads = 0
  /\ batchIndex = 0
  /\ batchNonces = <<>>
  /\ transactions = <<>>
  /\ tasks = <<>>
  /\ intents = <<>>
  /\ outcomes = <<>>
  /\ successCount = 0
  /\ sends = 0
  /\ rejects = 0
  /\ accepted = {}
  /\ calls = <<>>
  /\ summary = NoSummary
  /\ endpointFacts = <<>>
  /\ gasParams = NoGas
  /\ poll = NoPoll

Next ==
  \/ ValidateEndpoint
  \/ CreateWallet
  \/ FetchTokenDetails
  \/ ReadBalance
  \/ EnterAmount
  \/ ConfirmGas
  \/ Initialize
  \/ LoopHead
  \/ GetNextBatchNonces
  \/ ReInitialize
  \/ Dispatch
  \/ \E i \in 1..BATCH_SIZE : Accept(i)
  \/ \E i \in 1..BATCH_SIZE : Reject(i)
  \/ \E i \in 1..BATCH_SIZE : RetryTimer(i)
  \/ ReportResults

Spec == Init /\ [][Next]_vars

\* --------------------------- concurrent callers of getNextBatchNonces
Callers == 1..2

\* A caller invokes getNextBatchNonces(count): the body runs up to its first
\* await, which exists only when currentNonce is falsy.
Call(c) ==
  /\ pc = "harness"
  /\ calls[c].pc = "idle"
  /\ IF Falsy(mgr.currentNonce)
       THEN /\ calls' = [calls EXCEPT ![c].pc = "awaitInit"]
            /\ UNCHANGED mgr
       ELSE /\ calls' = [calls EXCEPT ![c].pc = "returned",
                                      ![c].ret = NonceArray(mgr, calls[c].count)]
            /\ mgr' = Advance(mgr, calls[c].count)
  /\ UNCHANGED chainReads
  /\ UNCHANGED mainVars

\* wallet.getNonce() of the caller's initialize() resolves and initialize
\* assigns both fields; the caller's own continuation is a later microtask.
InitResolve(c) ==
  /\ pc = "harness"
  /\ calls[c].pc = "awaitInit"
  /\ \E r \in ChainReadValues : mgr' = Initialized(mgr, r)
  /\ chainReads' = chainReads + 1
  /\ calls' = [calls EXCEPT ![c].pc = "resume"]
  /\ UNCHANGED mainVars

\* The caller resumes after await this.initialize() and takes its range.
Resume(c) ==
  /\ pc = "harness"
  /\ calls[c].pc = "resume"
  /\ calls' = [calls EXCEPT ![c].pc = "returned",
                            ![c].ret = NonceArray(mgr, calls[c].count)]
  /\ mgr' = Advance(mgr, calls[c].count)
  /\ UNCHANGED chainReads
  /\ UNCHANGED mainVars

InitConc ==
  /\ pc = "harness"
  /\ exitCode = Null
  /\ error = "none"
  /\ transferType = "native"
  /\ addresses = <<>>
  /\ rpcIdx = 1
  /\ providers = <<>>
  /\ events = <<>>
  /\ provider = NoProvider
  /\ balance = Null
  /\ balanceReads = 0
  /\ parsedAmount = Null
  /\ fundsOk = FALSE
  /\ chainCount \in 0..MaxBaseNonce
  /\ \/ mgr = NewManager /\ chainReads = 0
     \/ mgr = Initialized(NewManager, chainCount) /\ chainReads = 1
  /\ batchIndex = 0
  /\ batchNonces = <<>>
  /\ transactions = <<>>
  /\ tasks = <<>>
  /\ intents = <<>>
  /\ outcomes = <<>>
  /\ successCount = 0
  /\ sends = 0
  /\ rejects = 0
  /\ accepted = {}
  /\ summary = NoSummary
  /\ endpointFacts = <<>>
  /\ gasParams = NoGas
  /\ poll = NoPoll
  /\ calls \in [Callers -> {[pc |-> "idle", count |-> k, ret |-> <<>>] : k \in 1..MaxCount}]

NextConc ==
  \/ \E c \in Callers : Call(c)
  \/ \E c \in Callers : InitResolve(c)
  \/ \E c \in Callers : Resume(c)

SpecConc == InitConc /\ [][NextConc]_vars

\* ------------------------------------ sessions with a call that never settles
\* wallet.sendTransaction(tx) neither resolves nor rejects: the await of the
\* retry loop, which has no timeout of its own, never returns.
Hang(i) ==
  /\ pc = "await"
  /\ i \in 1..Len(tasks)
  /\ tasks[i].st = "pending"
  /\ tasks' = [tasks EXCEPT ![i].st = "hung"]
  /\ UNCHANGED <<pc, exitCode, error, transferType, addresses, rpcIdx, providers, events,
                 provider, balance, balanceReads, parsedAmount, fundsOk, mgr, chainCount,
                 chainReads, batchIndex, batchNonces, transactions, intents, outcomes,
                 successCount, sends, rejects, accepted, calls, summary, endpointFacts,
                 gasParams, poll>>

InitLive == Init /\ Len(addresses) <= MaxLiveRecipients

NextLive ==
  \/ Next
  \/ \E i \in 1..BATCH_SIZE : Hang(i)

\* The event loop runs every continuation that is ready, prompts are answered,
\* timers fire, and a call that settles at all settles one way or the other.
Fairness ==
  /\ WF_vars(ValidateEndpoint)
  /\ WF_vars(CreateWallet)
  /\ WF_vars(FetchTokenDetails)
  /\ WF_vars(ReadBalance)
  /\ WF_vars(EnterAmount)
  /\ WF_vars(ConfirmGas)
  /\ WF_vars(Initialize)
  /\ WF_vars(LoopHead)
  /\ WF_vars(GetNextBatchNonces)
  /\ WF_vars(ReInitialize)
  /\ WF_vars(Dispatch)
  /\ WF_vars(ReportResults)
  /\ \A i \in 1..BATCH_SIZE : WF_vars(Accept(i) \/ Reject(i))
  /\ \A i \in 1..BATCH_SIZE : WF_vars(RetryTimer(i))

SpecLive == InitLive /\ [][NextLive]_vars /\ Fairness

\* ------------------------------------------------- the polling variant
\* ethers.parseEther("0.00016"), in units of 0.00008 ether
GasFee == 2

\* the fee left out of the amount
SendAmountWhole(bal) == bal

\* sendAmount = balance - gasFee
SendAmount(bal) == bal - GasFee

\* addresses[0]
FirstAddress == IF Len(addresses) = 0 THEN Null ELSE addresses[1]

PollRuns == 1..Len(poll.runs)

\* setInterval(checkBalanceAndSend, 1000) fires: a new run starts and awaits
\* provider.getBalance, whatever earlier runs are doing.
Tick ==
  /\ pc = "polling"
  /\ poll.ticks < MaxTicks
  /\ poll' = [poll EXCEPT !.ticks = @ + 1,
                          !.runs = Append(@, [pc |-> "reading", observed |-> Null])]
  /\ UNCHANGED <<sessionVars, calls>>

\* provider.getBalance resolves: the run computes sendAmount and, when it is
\* positive, calls wallet.sendTransaction with the first address as target.
BalanceResolve(r) ==
  /\ pc = "polling"
  /\ r \in PollRuns
  /\ poll.runs[r].pc = "reading"
  /\ LET bal == poll.chainBalance
         sendAmount == SendAmount(bal)
     IN IF sendAmount > 0
          THEN poll' = [poll EXCEPT
                 !.runs[r] = [pc |-> "sending", observed |-> bal],
                 !.sent = Append(@, [to |-> FirstAddress, value |-> sendAmount,
                                     observed |-> bal, run |-> r])]
          ELSE poll' = [poll EXCEPT !.runs[r] = [pc |-> "insufficient", observed |-> bal]]
  /\ UNCHANGED <<sessionVars, calls>>

\* provider.getBalance rejects: nothing in checkBalanceAndSend catches it.
BalanceReject(r) ==
  /\ pc = "polling"
  /\ r \in PollRuns
  /\ poll.runs[r].pc = "reading"
  /\ poll' = [poll EXCEPT !.runs[r].pc = "rejected"]
  /\ UNCHANGED <<sessionVars, calls>>

\* the run's transaction, the last one it appended to the log
SentBy(r) == CHOOSE k \in 1..Len(poll.sent) : poll.sent[k].run = r

\* wallet.sendTransaction resolves: the network took the transaction, which
\* spends its value and the fee.
SendResolve(r) ==
  /\ pc = "polling"
  /\ r \in PollRuns
  /\ poll.runs[r].pc = "sending"
  /\ poll.chainBalance >= poll.sent[SentBy(r)].value + GasFee
  /\ poll' = [poll EXCEPT !.runs[r].pc = "sent",
                          !.chainBalance = @ - poll.sent[SentBy(r)].value - GasFee]
  /\ UNCHANGED <<sessionVars, calls>>

\* wallet.sendTransaction rejects: the catch block reports the failure.
SendReject(r) ==
  /\ pc = "polling"
  /\ r \in PollRuns
  /\ poll.runs[r].pc = "sending"
  /\ poll' = [poll EXCEPT !.runs[r].pc = "failed"]
  /\ UNCHANGED <<sessionVars, calls>>

\* The polling main has built its provider and wallet and installed the interval.
InitPoll ==
  /\ pc = "polling"
  /\ exitCode = Null
  /\ error = "none"
  /\ transferType = "native"
  /\ addresses \in AddressLists
  /\ rpcIdx = 1
  /\ providers = <<>>
  /\ events = <<>>
  /\ provider = NoProvider
  /\ balance = Null
  /\ balanceReads = 0
  /\ parsedAmount = Null
  /\ fundsOk = FALSE
  /\ mgr = NewManager
  /\ chainCount = 0
  /\ chainReads = 0
  /\ batchIndex = 0
  /\ batchNonces = <<>>
  /\ transactions = <<>>
  /\ tasks = <<>>
  /\ intents = <<>>
  /\ outcomes = <<>>
  /\ successCount = 0
  /\ sends = 0
  /\ rejects = 0
  /\ accepted = {}
  /\ calls = <<>>
  /\ summary = NoSummary
  /\ endpointFacts = <<>>
  /\ gasParams = NoGas
  /\ poll \in {[chainBalance |-> b, ticks |-> 0, runs |-> <<>>, sent |-> <<>>]
                 : b \in 0..MaxPollBalance}

NextPoll ==
  \/ Tick
  \/ \E r \in 1..MaxTicks : BalanceResolve(r)
  \/ \E r \in 1..MaxTicks : BalanceReject(r)
  \/ \E r \in 1..MaxTicks : SendResolve(r)
  \/ \E r \in 1..MaxTicks : SendReject(r)

SpecPoll == InitPoll /\ [][NextPoll]_vars

\* ================================================================ claims
Settled(t) == t.st \in {"ok", "fail"}

AllFalse(h) == \A k \in 1..Len(h) : h[k] = FALSE

\* C1: no nonce is assigned to two intents of a session: the nonces of the
\* intents, in build order, are strictly increasing, so a nonce used by a
\* failed transaction of an earlier batch is never given out again.
C1_NoncesUniqueIncreasing ==
  \A i, j \in 1..Len(intents) : i < j => intents[i].nonce < intents[j].nonce

\* C2: the intent of the recipient at 0-based index p carries nonce b + p,
\* b being the on-chain count read at initialisation.
C2_NonceIsBaselinePlusIndex ==
  \A p \in 1..Len(intents) : intents[p].nonce = chainCount + (p - 1)

\* C3: wallet.getNonce is read exactly once per session; once dispatch has
\* begun no further read happens and the cursor is never set back.
C3_SingleChainRead ==
  /\ chainReads <= 1
  /\ pc \in {"loop", "alloc", "dispatch", "await", "done"} => chainReads = 1
  /\ pc # "reinit"

\* C4: two overlapping getNextBatchNonces calls return disjoint ranges with
\* no gap between them and leave the cursor advanced by both counts.
C4_ConcurrentAllocationAtomic ==
  (\A c \in Callers : calls[c].pc = "returned") =>
     /\ Range(calls[1].ret) \cap Range(calls[2].ret) = {}
     /\ Range(calls[1].ret) \cup Range(calls[2].ret)
          = chainCount..(chainCount + calls[1].count + calls[2].count - 1)
     /\ mgr.nextAvailable = chainCount + calls[1].count + calls[2].count

\* C5: at most RETRY_ATTEMPTS = 3 sendTransaction calls per intent, none after
\* an accepted one; Success iff the last of k <= 3 attempts was accepted and
\* all before it failed, Failure iff attempts 1, 2 and 3 all failed.
C5_RetryBounded ==
  \A i \in 1..Len(tasks) :
    LET t == tasks[i] IN
      /\ t.attempts \in 1..3
      /\ t.st \in {"pending", "backoff", "ok", "fail"}
      /\ t.st = "pending" => Len(t.hist) = t.attempts - 1 /\ AllFalse(t.hist)
      /\ t.st = "backoff" => Len(t.hist) = t.attempts /\ AllFalse(t.hist)
      /\ t.st = "ok" <=> (t.hist # <<>> /\ t.hist[Len(t.hist)] = TRUE)
      /\ t.st = "ok" => Len(t.hist) = t.attempts /\ AllFalse(SubSeq(t.hist, 1, t.attempts - 1))
      /\ t.st = "fail" <=> t.hist = <<FALSE, FALSE, FALSE>>
      /\ t.st = "fail" => t.attempts = 3

C5_Witness ==
  /\ \E i \in 1..Len(tasks) : tasks[i].st = "fail" /\ tasks[i].attempts = 3
  /\ \E i \in 1..Len(tasks) : tasks[i].st = "ok"

\* C6: every intent gets exactly one outcome: whenever main is between
\* batches the outcomes recorded are one per intent built, at positions
\* 1, 2, ... in order, and at completion there is one per recipient.
C6_OneOutcomePerIntent ==
  /\ Len(outcomes) <= Len(intents)
  /\ \A k \in 1..Len(outcomes) : outcomes[k].position = k
  /\ pc \in {"loop", "alloc", "reinit", "dispatch", "done"} => Len(outcomes) = Len(intents)
  /\ pc = "done" => Len(outcomes) = Len(addresses) /\ Len(intents) = Len(addresses)

C6_Witness ==
  /\ pc = "done"
  /\ Len(addresses) > BATCH_SIZE
  /\ \E k \in 1..BATCH_SIZE : ~outcomes[k].success

\* C7: batches never interleave: a nonce allocation, the building of intents
\* and every sendTransaction call happen only when all intents of the earlier
\* batches have reached their outcome.
C7_BatchesSequential ==
  [][ /\ (mgr'.nextAvailable # mgr.nextAvailable \/ intents' # intents)
          => /\ \A i \in 1..Len(tasks) : Settled(tasks[i])
             /\ Len(outcomes) = Len(intents)
      /\ sends' > sends
          => /\ Len(outcomes) = batchIndex
             /\ Len(intents') <= batchIndex + BATCH_SIZE ]_vars

C7_Witness ==
  /\ pc = "await"
  /\ batchIndex = BATCH_SIZE
  /\ Len(outcomes) = BATCH_SIZE
  /\ \E k \in 1..BATCH_SIZE : ~outcomes[k].success
  /\ tasks[1].st = "pending"

\* C8: the fixed-mode check passes iff amount * recipients <= balance, for
\* native and ERC20 transfers, against the one balance read made before it.
C8_SufficiencyCheck ==
  /\ balanceReads <= 1
  /\ balance # Null => balanceReads = 1
  /\ (parsedAmount # Null /\ balance # Null) =>
       /\ pc = "gas" <=> parsedAmount * Len(addresses) <= balance
       /\ (pc = "failed" /\ error = "InsufficientBalance")
            <=> parsedAmount * Len(addresses) > balance

C8_Witness ==
  /\ transferType = "erc20"
  /\ balance = 10
  /\ parsedAmount = 3
  /\ Len(addresses) = 3
  /\ pc = "gas"

C10_NoLiveEndpointsFatal ==
  /\ (rpcIdx > NumRpc /\ providers = <<>>)
       => /\ pc = "failed"
          /\ error = "NoWorkingRpc"
          /\ provider = NoProvider
          /\ intents = <<>>
          /\ sends = 0
  /\ provider # NoProvider => Len(provider.providers) >= 1

C10_Witness ==
  /\ pc = "failed"
  /\ error = "NoWorkingRpc"
  /\ Len(events) = NumRpc
  /\ \A k \in 1..Len(events) : ~events[k].valid

\* the recipient an intent pays: the transfer's first argument for ERC20, else to
Recipient(tx) == IF tx.to = TokenTarget /\ tx.data # <<>> THEN tx.data[1] ELSE tx.to

SuccessOutcomes == {k \in 1..Len(outcomes) : outcomes[k].success}

FailureOutcomes == {k \in 1..Len(outcomes) : ~outcomes[k].success}

\* C11: with at least one reachable endpoint buildFallbackProvider returns a
\* transport, failures of the others being absorbed, and the transport reports
\* the chain descriptor's chainId and name whatever the endpoints report.
C11_PinnedIdentity ==
  /\ (Len(endpointFacts) = NumRpc /\ \E k \in 1..NumRpc : endpointFacts[k].up)
       => provider # NoProvider /\ error # "NoWorkingRpc"
  /\ (rpcIdx > NumRpc /\ \E k \in 1..Len(events) : events[k].valid)
       => provider # NoProvider /\ error # "NoWorkingRpc"
  /\ provider # NoProvider
       => /\ provider.network.chainId = ExpectedChainId
          /\ provider.network.name = "chain.name"

C11_Witness ==
  /\ provider # NoProvider
  /\ Len(endpointFacts) = NumRpc
  /\ \E k \in 1..NumRpc : endpointFacts[k].up /\ endpointFacts[k].reported # ExpectedChainId
                          /\ provider.providers[1] = k
  /\ \E k \in 1..NumRpc : ~endpointFacts[k].up

\* C12: at completion the successes and failures add up to the recipients,
\* the total sent is the amount times the successes, and the success rate is
\* 100 * s / (s + f), printed to two decimals.
C12_Aggregation ==
  pc = "done" =>
    LET sc == Cardinality(SuccessOutcomes)
        fc == Cardinality(FailureOutcomes)
        n == Len(addresses)
    IN /\ sc + fc = n
       /\ summary.totalSent = parsedAmount * sc
       /\ n > 0 => /\ 2 * (summary.successRate * n - 10000 * sc) <= n
                   /\ 2 * (10000 * sc - summary.successRate * n) <= n
       /\ n = 0 => summary.successRate = NaN

C12_Witness ==
  /\ pc = "done"
  /\ SuccessOutcomes # {}
  /\ FailureOutcomes # {}
  /\ Len(addresses) = 3

\* C13: the process exits non-zero exactly when the session aborted on a
\* fatal condition and with 0 on normal completion, whatever the number of
\* failed recipients.
C13_ExitStatus ==
  /\ pc = "done" => exitCode = 0 /\ error = "none"
  /\ pc = "failed" => exitCode = 1 /\ error # "none"
  /\ pc \notin {"done", "failed"} => exitCode = Null /\ error = "none"
  /\ error \in {"none", "NoWorkingRpc", "PrivateKey", "TokenDetails", "BalanceRead",
                "InsufficientBalance"}

C13_Witness ==
  /\ pc = "done"
  /\ Len(addresses) >= 1
  /\ SuccessOutcomes = {}
  /\ exitCode = 0

\* C16: the list is cut into ceil(n / BATCH_SIZE) batches, all of BATCH_SIZE
\* recipients but the last, which holds 1..BATCH_SIZE, in list order, and one
\* intent is built per recipient.
C16_Partitioning ==
  LET n == Len(addresses) IN
  /\ batchIndex % BATCH_SIZE = 0
  /\ pc \in {"alloc", "reinit", "dispatch", "await"}
       => /\ batchIndex < n
          /\ Len(Batch) = IF n - batchIndex >= BATCH_SIZE THEN BATCH_SIZE ELSE n - batchIndex
          /\ \A i \in 1..Len(Batch) : Batch[i] = addresses[batchIndex + i]
  /\ pc = "await" => Len(transactions) = Len(Batch) /\ Len(intents) = batchIndex + Len(Batch)
  /\ Len(intents) <= n
  /\ \A p \in 1..Len(intents) : Recipient(intents[p]) = addresses[p]
  /\ pc = "done" => /\ Len(intents) = n
                    /\ batchIndex = BATCH_SIZE * ((n + BATCH_SIZE - 1) \div BATCH_SIZE)

C16_Witness ==
  /\ pc = "done"
  /\ Len(addresses) = BATCH_SIZE + 1
  /\ batchIndex = 2 * BATCH_SIZE

\* C17: the k-th outcome reported carries position k and the address of the
\* k-th recipient, for native and ERC20 transfers, and tells what became of
\* that recipient's task, whatever the order in which the tasks finished.
C17_OutcomesInListOrder ==
  /\ \A k \in 1..Len(outcomes) :
       /\ outcomes[k].position = k
       /\ outcomes[k].address = addresses[k]
       /\ outcomes[k].address = Recipient(intents[k])
       /\ outcomes[k].success => intents[k].nonce \in accepted
  /\ (pc \in {"loop", "alloc", "reinit", "dispatch", "done"} /\ tasks # <<>>)
       => \A i \in 1..Len(tasks) :
            outcomes[Len(outcomes) - Len(tasks) + i].success = (tasks[i].st = "ok")

C17_Witness ==
  /\ pc = "loop"
  /\ transferType = "erc20"
  /\ Len(tasks) >= 2
  /\ tasks[1].st = "fail"
  /\ tasks[2].st = "ok" /\ tasks[2].attempts = 1
  /\ ~outcomes[1].success /\ outcomes[2].success

\* C18: every attempt for a recipient submits the intent built for it: same
\* nonce, target, value, payload and gas parameters; a retry takes no nonce
\* from the manager and keeps the amount.
C18_RetrySameIntent ==
  /\ \A i \in 1..Len(tasks) :
       /\ Len(tasks[i].sent) = tasks[i].attempts
       /\ \A k \in 1..Len(tasks[i].sent) :
            /\ tasks[i].sent[k] = tasks[i].sent[1]
            /\ tasks[i].sent[k] = transactions[i]
            /\ pc = "await" => tasks[i].sent[k].nonce = batchNonces[i]
            /\ tasks[i].sent[k].gas = gasParams
            /\ tasks[i].sent[k].value = IF transferType = "erc20" THEN 0 ELSE parsedAmount
            /\ transferType = "erc20" => tasks[i].sent[k].data[2] = parsedAmount
  /\ pc = "await" => mgr.nextAvailable = batchNonces[Len(batchNonces)] + 1

C18_Witness ==
  /\ \E i \in 1..Len(tasks) : tasks[i].attempts = 3 /\ tasks[i].st = "pending"
  /\ gasParams \in CustomGas

\* C19: the endpoints of chain.rpc are validated in declared order, each
\* yields one event, in that order, the transport aggregates exactly those
\* that validated, in declared order, and a failure does not stop the loop.
C19_ValidationInOrder ==
  /\ rpcIdx \in 1..(NumRpc + 1)
  /\ Len(events) = rpcIdx - 1
  /\ \A k \in 1..Len(events) : events[k].url = k
  /\ Range(providers) = {k \in 1..Len(events) : events[k].valid}
  /\ \A i, j \in 1..Len(providers) : i < j => providers[i] < providers[j]
  /\ pc # "validate" => Len(events) = NumRpc
  /\ provider # NoProvider => provider.providers = providers

C19_Witness ==
  /\ Len(events) = NumRpc
  /\ ~events[1].valid
  /\ events[NumRpc].valid
  /\ provider # NoProvider

\* C20: createValidProvider succeeds exactly when getBlockNumber succeeds; the
\* chain id mismatch error is never raised, so an endpoint reporting another
\* chain id is accepted.
C20_MismatchNeverRaised ==
  /\ \A k \in 1..Len(events) :
       /\ events[k].error # "ChainIdMismatch"
       /\ events[k].valid <=> events[k].error = "none"
  /\ \A k \in 1..Len(endpointFacts) : events[k].valid <=> endpointFacts[k].up

C20_Witness ==
  \E k \in 1..Len(endpointFacts) :
    /\ endpointFacts[k].reported # ExpectedChainId
    /\ events[k].valid
    /\ k \in Range(providers)

\* C14: an attempt whose sendTransaction call never settles is counted as a
\* failed attempt, so every session eventually reaches its summary or a fatal
\* abort.
C14_SessionTerminates == <>(pc \in {"done", "failed"})

\* C15: in equal-split mode every transaction carries floor((B - g) / n), B
\* being the balance observed and g the reserved fee.
C15_EqualSplit ==
  Len(addresses) > 0 =>
    \A k \in 1..Len(poll.sent) :
      poll.sent[k].value = (poll.sent[k].observed - GasFee) \div Len(addresses)

\* C15 as amended: a run sends the whole remainder B - g to the first address
\* of the list, in one transaction, exactly when B - g > 0.
C15_RemainderToFirst ==
  /\ \A k \in 1..Len(poll.sent) :
       /\ poll.sent[k].value = poll.sent[k].observed - GasFee
       /\ poll.sent[k].value > 0
       /\ poll.sent[k].to = FirstAddress
       /\ poll.runs[poll.sent[k].run].observed = poll.sent[k].observed
  /\ \A r \in PollRuns :
       /\ Cardinality({k \in 1..Len(poll.sent) : poll.sent[k].run = r}) <= 1
       /\ poll.runs[r].pc \in {"sending", "sent", "failed"}
            <=> \E k \in 1..Len(poll.sent) : poll.sent[k].run = r
       /\ poll.runs[r].pc \in {"sending", "sent", "failed"}
            => poll.runs[r].observed - GasFee > 0
       /\ poll.runs[r].pc = "insufficient" => poll.runs[r].observed - GasFee <= 0

C15_Witness ==
  /\ Len(addresses) = 3
  /\ \E k \in 1..Len(poll.sent) :
       /\ poll.sent[k].observed = 5
       /\ poll.sent[k].value = 3
       /\ poll.sent[k].to = addresses[1]
       /\ poll.runs[poll.sent[k].run].pc = "sent"

\* C21: a run of checkBalanceAndSend never starts while an earlier run is
\* still pending, so two transactions computed from the same observed balance
\* are never in flight together.
C21_RunsDoNotOverlap ==
  \A k, l \in 1..Len(poll.sent) :
    /\ k < l
    /\ poll.runs[poll.sent[k].run].pc = "sending"
    /\ poll.runs[poll.sent[l].run].pc = "sending"
    => poll.sent[k].observed # poll.sent[l].observed

====
